---- MODULE Spec2Model ----
(***************************************************************************)
(* Model of apps/desktop/src-tauri/src/main.rs of liberty-reach: the two   *)
(* asynchronous commands encrypt_message / decrypt_message, the setup      *)
(* closure that builds the tray icon, and the tray menu-event closure.     *)
(* Text is modelled as a sequence of one-character strings.                *)
(***************************************************************************)
EXTENDS Integers, Sequences, FiniteSets, TLC

VARIABLES
    proc,        \* "setup", "running", "exited" (process::exit) or "panicked"
    windows,     \* labels of the webview windows that currently exist
    queue,       \* menu events delivered by the host and not yet handled
    delivered,   \* history: ids of all menu events in arrival order
    handledLog,  \* history: one record per invocation of the menu closure
    pc,          \* position inside the "show" arm, 0 = closure not running
    cur,         \* sequence number of the event the closure is handling
    windowLog,   \* history: window calls issued by the closure
    calls        \* command invocations made by the webview, with results

vars == <<proc, windows, queue, delivered, handledLog, pc, cur, windowLog, calls>>

trayVars == <<windows, queue, delivered, handledLog, pc, cur, windowLog>>

-----------------------------------------------------------------------------
(* Bounds *)

MaxEvents == 3      \* menu events delivered in one run

MaxAppCalls == 1    \* command invocations in one run of the whole app

MaxCalls == 2       \* command invocations in one run of the command model

MaxParts == 2       \* fragments concatenated into one input message

-----------------------------------------------------------------------------
(* Text and the inputs *)

\* the literal "encrypted:" of lines 13 and 19
Marker == <<"e", "n", "c", "r", "y", "p", "t", "e", "d", ":">>

Fragments ==
    { Marker, <<"a">>, <<"e", "n", "c">>, <<"r", "y", "p", "t", "e", "d", ":">> }

RECURSIVE Concat(_)
Concat(parts) ==
    IF parts = <<>> THEN <<>> ELSE Head(parts) \o Concat(Tail(parts))

Messages ==
    { Concat(ps) : ps \in UNION { [1..n -> Fragments] : n \in 0..MaxParts } }

AppMessages == { <<"a">> }

Keys == { "", "k1", "k2" }

AppKeys == { "k1" }

TamperChars == { "a", "b" }

\* the envelopes that differ from e in one character of the part after the marker
Tampered(e) ==
    { [e EXCEPT ![p] = c] : p \in (Len(Marker) + 1)..Len(e), c \in TamperChars }
        \ { e }

MenuIds == { "show", "quit", "other" }

WindowLabels == { "main", "settings" }

MainLabel == "main"

SetupOutcomes == { "ok", "menu_err", "no_icon", "build_err" }

-----------------------------------------------------------------------------
(* The commands *)

StartsWith(s, from) ==
    /\ Len(s) >= Len(from)
    /\ SubSeq(s, 1, Len(from)) = from

\* str::replace: every non-overlapping match of from, left to right, becomes to
RECURSIVE replace(_, _, _)
replace(s, from, to) ==
    IF Len(s) < Len(from) THEN s
    ELSE IF StartsWith(s, from)
         THEN to \o replace(SubSeq(s, Len(from) + 1, Len(s)), from, to)
         ELSE <<Head(s)>> \o replace(Tail(s), from, to)

Ok(v) == [ok |-> TRUE, val |-> v]

NoResult == [ok |-> FALSE, val |-> <<>>]

encrypt_message(message, key) == Ok(Marker \o message)

decrypt_message(ciphertext, key) == Ok(replace(ciphertext, Marker, <<>>))

RunCommand(c) ==
    IF c.cmd = "encrypt" THEN encrypt_message(c.arg, c.key)
                         ELSE decrypt_message(c.arg, c.key)

Pending(i) == ~calls[i].done

InFlight == { i \in 1..Len(calls) : Pending(i) }

Done(cmd) == { i \in 1..Len(calls) : calls[i].done /\ calls[i].cmd = cmd }

Invoke(cmd, arg, key) ==
    /\ proc = "running"
    /\ calls' = Append(calls, [cmd |-> cmd, arg |-> arg, key |-> key,
                               done |-> FALSE, res |-> NoResult])
    /\ UNCHANGED <<proc, trayVars>>

\* the future of an invoked command resolves and its result goes to the webview
Complete(i) ==
    /\ proc = "running"
    /\ Pending(i)
    /\ calls' = [calls EXCEPT ![i].done = TRUE, ![i].res = RunCommand(calls[i])]
    /\ UNCHANGED <<proc, trayVars>>

\* the texts a webview holding earlier results can pass to decrypt_message
KnownEnvelopes == { calls[i].res.val : i \in Done("encrypt") }

DecryptArgs == KnownEnvelopes \cup UNION { Tampered(e) : e \in KnownEnvelopes }

-----------------------------------------------------------------------------
(* main: setup closure and run *)

\* a failure of the setup closure (?) comes back from run() and expect panics;
\* unwrap on a missing default window icon panics inside the closure
Setup(outcome) ==
    /\ proc = "setup"
    /\ proc' = IF outcome = "ok" THEN "running" ELSE "panicked"
    /\ UNCHANGED <<trayVars, calls>>

-----------------------------------------------------------------------------
(* The host: windows and the delivery of menu events *)

OpenWindow(l) ==
    /\ proc = "running"
    /\ l \notin windows
    /\ windows' = windows \cup {l}
    /\ UNCHANGED <<proc, queue, delivered, handledLog, pc, cur, windowLog, calls>>

CloseWindow(l) ==
    /\ proc = "running"
    /\ l \in windows
    /\ windows' = windows \ {l}
    /\ UNCHANGED <<proc, queue, delivered, handledLog, pc, cur, windowLog, calls>>

MenuEvent(id) ==
    /\ proc = "running"
    /\ Len(delivered) < MaxEvents
    /\ delivered' = Append(delivered, id)
    /\ queue' = Append(queue, [seq |-> Len(delivered) + 1, id |-> id])
    /\ UNCHANGED <<proc, windows, handledLog, pc, cur, windowLog, calls>>

-----------------------------------------------------------------------------
(* The menu-event closure *)

HandlerIdle_reentrant == TRUE

\* the closure is a plain synchronous Fn: it is entered only when it has returned
HandlerIdle == pc = 0

ShowArmCalls_swapped == <<"set_focus", "show">>

\* the calls of the "show" arm, in program order
ShowArmCalls == <<"show", "set_focus">>

ShowArm ==
    /\ pc' = IF MainLabel \in windows THEN 1 ELSE 0
    /\ proc' = proc

QuitArm_graceful ==
    /\ proc' = IF InFlight = {} THEN "exited" ELSE proc
    /\ pc' = pc

QuitArm ==
    /\ proc' = "exited"
    /\ pc' = pc

DefaultArm_show ==
    /\ pc' = IF MainLabel \in windows THEN 1 ELSE 0
    /\ proc' = proc

DefaultArm ==
    /\ pc' = pc
    /\ proc' = proc

Dispatch ==
    /\ proc = "running"
    /\ HandlerIdle
    /\ queue # <<>>
    /\ LET event == Head(queue) IN
        /\ queue' = Tail(queue)
        /\ cur' = event.seq
        /\ handledLog' = Append(handledLog,
               [seq |-> event.seq, id |-> event.id, wins |-> windows])
        /\ CASE event.id = "show" -> ShowArm
             [] event.id = "quit" -> QuitArm
             [] OTHER -> DefaultArm
    /\ UNCHANGED <<windows, delivered, windowLog, calls>>

\* one call on the window handle found by the lookup; its result is discarded
WindowCall ==
    /\ proc = "running"
    /\ pc > 0
    /\ windowLog' = Append(windowLog,
           [ev |-> cur, label |-> MainLabel, act |-> ShowArmCalls[pc]])
    /\ pc' = IF pc >= Len(ShowArmCalls) THEN 0 ELSE pc + 1
    /\ UNCHANGED <<proc, windows, queue, delivered, handledLog, cur, calls>>

-----------------------------------------------------------------------------
(* Specifications *)

Init ==
    /\ proc = "setup"
    /\ windows \in SUBSET WindowLabels
    /\ queue = <<>>
    /\ delivered = <<>>
    /\ handledLog = <<>>
    /\ pc = 0
    /\ cur = 0
    /\ windowLog = <<>>
    /\ calls = <<>>

AppEncrypt ==
    /\ Len(calls) < MaxAppCalls
    /\ \E m \in AppMessages, k \in AppKeys : Invoke("encrypt", m, k)

AppDecrypt ==
    /\ Len(calls) < MaxAppCalls
    /\ \E c \in { Marker \o m : m \in AppMessages }, k \in AppKeys :
           Invoke("decrypt", c, k)

Next ==
    \/ \E o \in SetupOutcomes : Setup(o)
    \/ \E l \in WindowLabels : OpenWindow(l)
    \/ \E l \in WindowLabels : CloseWindow(l)
    \/ \E id \in MenuIds : MenuEvent(id)
    \/ Dispatch
    \/ WindowCall
    \/ AppEncrypt
    \/ AppDecrypt
    \/ \E i \in 1..Len(calls) : Complete(i)

Spec == Init /\ [][Next]_vars

\* the commands alone, in a process that is up, over the larger input sets
CryptoInit ==
    /\ proc = "running"
    /\ windows = {MainLabel}
    /\ queue = <<>>
    /\ delivered = <<>>
    /\ handledLog = <<>>
    /\ pc = 0
    /\ cur = 0
    /\ windowLog = <<>>
    /\ calls = <<>>

CryptoEncrypt ==
    /\ Len(calls) < MaxCalls
    /\ \E m \in Messages, k \in Keys : Invoke("encrypt", m, k)

CryptoDecrypt ==
    /\ Len(calls) < MaxCalls
    /\ \E c \in DecryptArgs, k \in Keys : Invoke("decrypt", c, k)

CryptoNext ==
    \/ CryptoEncrypt
    \/ CryptoDecrypt
    \/ \E i \in 1..Len(calls) : Complete(i)

CryptoSpec == CryptoInit /\ [][CryptoNext]_vars

-----------------------------------------------------------------------------
(* Properties of the commands, checked under CryptoSpec *)

\* pairs (encrypt call, decrypt call), both returned, related by the envelope
Pairs == Done("encrypt") \X Done("decrypt")

SameEnvelope(i, j) == calls[j].arg = calls[i].res.val

\* C1: round trip. Whenever decrypt_message has returned for the envelope that
\* encrypt_message(M, S) returned, called with the same key S, its result is
\* Ok(M), for every message M (the empty one and those containing the marker
\* text included). Stated for the non-empty keys, the empty one being C4's.
C1_RoundTrip ==
    \A <<i, j>> \in Pairs :
        (SameEnvelope(i, j) /\ calls[j].key = calls[i].key /\ calls[i].key # "")
            => calls[j].res = Ok(calls[i].arg)

\* C2: wrong key. Whenever decrypt_message has returned for the envelope that
\* encrypt_message(M, S1) returned, called with a key S2 # S1, its result is an
\* error and never Ok of any plaintext.
C2_WrongKey ==
    \A <<i, j>> \in Pairs :
        (SameEnvelope(i, j) /\ calls[j].key # calls[i].key)
            => ~calls[j].res.ok

\* C3: tamper detection. Whenever decrypt_message has returned for an envelope
\* that differs from the one encrypt_message(M, S) returned in its ciphertext
\* part, called with the same key S, its result is an error; it is never Ok of
\* a plaintext other than M.
C3_TamperDetected ==
    \A <<i, j>> \in Pairs :
        (calls[j].arg \in Tampered(calls[i].res.val) /\ calls[j].key = calls[i].key)
            => ~calls[j].res.ok

\* C4: empty secret. Every encrypt_message or decrypt_message call that was
\* made with the empty key and has returned, returned Err with a non-empty
\* error text.
C4_EmptySecret ==
    \A i \in 1..Len(calls) :
        (calls[i].done /\ calls[i].key = "")
            => (~calls[i].res.ok /\ calls[i].res.val # <<>>)

\* C5: nonce uniqueness. No two returned encrypt_message calls made with the
\* same non-empty key (the same message included) produced the same envelope.
C5_DistinctEnvelopes ==
    \A i \in Done("encrypt"), j \in Done("encrypt") :
        (i # j /\ calls[i].key = calls[j].key /\ calls[i].key # "")
            => calls[i].res.val # calls[j].res.val

-----------------------------------------------------------------------------
(* Properties of the tray closure and the process, checked under Spec *)

\* the window calls issued while handling event number s, in order
ActsOf(s) ==
    LET sel == SelectSeq(windowLog, LAMBDA w : w.ev = s)
    IN  [k \in 1..Len(sel) |-> <<sel[k].label, sel[k].act>>]

\* the closure invocation for event number i has returned
Returned(i) == i < Len(handledLog) \/ pc = 0

\* this step is the closure being entered for an event with an id in ids
Handles(ids) ==
    /\ Len(handledLog') = Len(handledLog) + 1
    /\ handledLog'[Len(handledLog')].id \in ids

ShowThenFocus == << <<MainLabel, "show">>, <<MainLabel, "set_focus">> >>

C6_Calls ==
    \A i \in 1..Len(handledLog) :
        handledLog[i].id = "show" =>
            IF MainLabel \in handledLog[i].wins
            THEN IF Returned(i) THEN ActsOf(i) = ShowThenFocus
                 ELSE ActsOf(i) = SubSeq(ShowThenFocus, 1, pc - 1)
            ELSE ActsOf(i) = <<>>

\* C6: show routing. For every handled Show event: if the window "main"
\* existed at the lookup, the handler issued show() and then set_focus() on
\* it, once each and in that order (a prefix of that while it is still
\* running); if it did not exist, the handler issued no window call. Handling
\* a Show event never ends the process.
C6_ShowRouting ==
    /\ []C6_Calls
    /\ [][Handles({"show"}) => (proc' = "running" /\ windowLog' = windowLog)]_vars

C6_Witness ==
    \E i \in 1..Len(handledLog), j \in 1..Len(handledLog) :
        /\ handledLog[i].id = "show" /\ MainLabel \in handledLog[i].wins
        /\ handledLog[j].id = "show" /\ MainLabel \notin handledLog[j].wins
        /\ pc = 0
        /\ Len(windowLog) = 2
        /\ proc = "running"

\* C7: Quit is immediate. The step that handles a Quit event ends the process
\* in that same step, whether or not commands are in flight; once the process
\* has exited, no menu event is handled, no window call is issued and no
\* command returns a result (nothing changes any more).
C7_QuitImmediate ==
    [][ /\ Handles({"quit"}) => proc' = "exited"
        /\ proc = "exited" => UNCHANGED vars ]_vars

C7_Witness ==
    /\ proc = "exited"
    /\ InFlight # {}
    /\ queue # <<>>
    /\ handledLog[Len(handledLog)].id = "quit"

\* C8: Quit is the only path that ends the process. In every reachable state,
\* the process has ended (exit or panic) only if a Quit event was handled.
C8_OnlyQuitEnds ==
    proc \in {"exited", "panicked"}
        => \E i \in 1..Len(handledLog) : handledLog[i].id = "quit"

C9_State ==
    /\ Len(handledLog) <= Len(delivered)
    /\ \A i \in 1..Len(handledLog) :
           /\ handledLog[i].seq = i
           /\ handledLog[i].id = delivered[i]
           /\ i < Len(handledLog) => handledLog[i].id # "quit"
    /\ Len(queue) = Len(delivered) - Len(handledLog)
    /\ \A k \in 1..Len(queue) :
           /\ queue[k].seq = Len(handledLog) + k
           /\ queue[k].id = delivered[queue[k].seq]
    /\ pc > 0 => cur = Len(handledLog)
    /\ \A k \in 1..Len(windowLog) :
           /\ windowLog[k].ev \in 1..Len(handledLog)
           /\ k > 1 => windowLog[k - 1].ev <= windowLog[k].ev
    /\ \A i \in 1..Len(handledLog) :
           (i < Len(handledLog) /\ handledLog[i].id = "show"
               /\ MainLabel \in handledLog[i].wins)
                   => Len(ActsOf(i)) = Len(ShowArmCalls)

C10_Calls ==
    \A i \in 1..Len(handledLog) :
        handledLog[i].id \notin {"show", "quit"} => ActsOf(i) = <<>>

\* C10: unknown menu ids are inert. The step that handles an event whose id is
\* neither "show" nor "quit" issues no window call, does not end the process
\* and changes nothing but the consumption of the event; no window call is
\* ever attributed to such an event.
C10_UnknownInert ==
    /\ []C10_Calls
    /\ [][Handles(MenuIds \ {"show", "quit"}) =>
            /\ proc' = "running"
            /\ UNCHANGED <<proc, windows, delivered, pc, windowLog, calls>>
            /\ queue' = Tail(queue) ]_vars

C10_Witness ==
    /\ Len(handledLog) >= 2
    /\ handledLog[1].id = "other"
    /\ MainLabel \in handledLog[1].wins
    /\ proc = "running"

====
